---- MODULE Spec2Model ----
(***************************************************************************)
(* A model of the order-taking assistant (src/src/app.ts) and of the       *)
(* catalog snapshot it validates against (src/src/snapshot.ts).            *)
(*                                                                         *)
(* Text that the code processes character by character (menu references:   *)
(* ids, names, "MENU_<name>" aliases) is a sequence of one-character       *)
(* strings, so that toLowerCase, trim, startsWith and slice are computed.  *)
(* Product ids and categories are only compared, never taken apart, and    *)
(* are plain strings; order ids are the numbers 1, 2, ... in the order the *)
(* store creates the rows.  A missing, null, undefined or empty field is   *)
(* the empty string "" (<< >> for text, 0 for an order id): the code tests *)
(* all of them with the same truthiness test.                              *)
(***************************************************************************)
EXTENDS Integers, Sequences, FiniteSets, TLC

VARIABLES
    \* ---- src/src/app.ts: module state and the turn being handled ----
    lastSnapshot,     \* app.ts:90   cached snapshot, NoSnapshot when null
    currentOrderId,   \* app.ts:91   id of the open order, 0 when null
    pc,               \* "start", "dispatch" (inside handleFunctionCalls), "idle"
                      \* (between turns) or "crashed" (main rejected)
    turn,             \* 0 in the initial turn, k in the k-th user turn
    rounds,           \* model responses with function calls in this turn
    pending,          \* response.functionCalls not yet dispatched in this round
    parts,            \* app.ts:210  functionResponse parts of this round
    messages,         \* rows saveMessage appended since the round began
    orders,           \* orders table: the rows insertOrder created
    detailsStore,     \* details_order table: the rows insertDetailsOrder created
    trace,            \* what the last dispatched tool call did (observation)
    \* ---- validateMenuItems applied to drawn inputs ----
    vSnapshot,        \* the snapshot argument
    vDetails,         \* the details argument
    vResult,          \* the value returned (or the exception thrown)
    vPc,              \* "input" while the list is drawn, "done" once validated
    \* ---- coerceMenuId applied to drawn inputs ----
    cSnapshot,        \* the snapshot argument
    cPieces,          \* the pieces of the input argument, in order
    cResult,          \* the value returned
    cPc,              \* "input" while the text is drawn, "done" once coerced
    \* ---- src/src/app.ts: the CLI loop with debounce (app.ts:378-429) ----
    inputs,               \* the lines typed so far that were no exit command
    mensajesAcumulados,   \* app.ts:379  the buffered lines, as indices of inputs
    debounceTimeout,      \* app.ts:378  the timer handle held, 0 when null
    timers,               \* the timers set and neither fired nor cleared
    cliTurns,             \* the calls of procesarMensajes that found a buffer
    cliPc,                \* "prompt" (main awaits rl.question), "flushing" (main
                          \* awaits procesarMensajes), "closed" (main returned),
                          \* "dead" (the process was ended), "off"
    \* ---- buildSnapshot applied to drawn inputs ----
    bDb,              \* what the four reads return
    bResult,          \* the reads issued, the Error thrown or the snapshot returned
    bPc,              \* "input" while the rows are drawn, "done" once built
    \* ---- the history load of main (app.ts:156-157, 361-376) on drawn rows ----
    hRows,            \* the rows of the chat that loadHistoryRows returns
    hHistory,         \* the history given to ai.chats.create
    hSent,            \* the initial message was sent
    hPc               \* "input" while the rows are drawn, "done" once loaded

ctlVars == <<lastSnapshot, currentOrderId, pc, turn, rounds, pending, parts,
             messages, orders, detailsStore, trace>>
valVars == <<vSnapshot, vDetails, vResult, vPc>>
coerceVars == <<cSnapshot, cPieces, cResult, cPc>>
cliVars == <<inputs, mensajesAcumulados, debounceTimeout, timers, cliTurns, cliPc>>
buildVars == <<bDb, bResult, bPc>>
historyVars == <<hRows, hHistory, hSent, hPc>>
vars == <<ctlVars, valVars, coerceVars, cliVars, buildVars, historyVars>>

(***************************************************************************)
(* Bounds of the model.                                                    *)
(***************************************************************************)
MaxDetails == 2      \* entries in one details list
MaxCalls == 2        \* function calls in one model response
MaxRounds == 2       \* model responses with function calls in one turn
MaxTurns == 1        \* user turns of the conversation
MaxOrders == 2       \* rows the orders table can take

Range(s) == {s[i] : i \in 1..Len(s)}

(***************************************************************************)
(* JavaScript text.                                                        *)
(***************************************************************************)
Upper == <<"A","B","C","D","E","F","G","H","I","J","K","L","M",
           "N","O","P","Q","R","S","T","U","V","W","X","Y","Z">>
Lower == <<"a","b","c","d","e","f","g","h","i","j","k","l","m",
           "n","o","p","q","r","s","t","u","v","w","x","y","z">>

ToLowerChar(c) ==
    IF \E i \in 1..26 : Upper[i] = c
    THEN Lower[CHOOSE i \in 1..26 : Upper[i] = c]
    ELSE c

\* String.prototype.toLowerCase
toLowerCase(s) == [i \in 1..Len(s) |-> ToLowerChar(s[i])]

RECURSIVE trimStart(_)
trimStart(s) == IF s # << >> /\ Head(s) = " " THEN trimStart(Tail(s)) ELSE s

RECURSIVE trimEnd(_)
trimEnd(s) ==
    IF s # << >> /\ s[Len(s)] = " " THEN trimEnd(SubSeq(s, 1, Len(s) - 1)) ELSE s

\* String.prototype.trim
trim(s) == trimEnd(trimStart(s))

\* String.prototype.startsWith
startsWith(s, p) == Len(s) >= Len(p) /\ SubSeq(s, 1, Len(p)) = p

\* String.prototype.slice(n)
slice(s, n) == SubSeq(s, n + 1, Len(s))

MenuPrefix == <<"m","e","n","u","_">>

(***************************************************************************)
(* JavaScript objects used as dictionaries.  snapshot.ts builds every      *)
(* index by reduce(..., {}) : a plain object, whose [key] lookup also      *)
(* finds the properties every object inherits from Object.prototype.       *)
(* "constructor" stands for those names.                                   *)
(***************************************************************************)
ConstructorText == <<"c","o","n","s","t","r","u","c","t","o","r">>
ObjectPrototypeKeys == {"constructor"}
ObjectPrototypeTexts == {ConstructorText}

\* What obj[key] finds: the object's own entry, an inherited property (a
\* truthy function that has none of the fields the code reads), or undefined.
\* Lookup is for the keys that are plain strings (product ids), LookupText
\* for the keys that are text (menu ids and names).
Lookup(obj, key) ==
    IF key \in DOMAIN obj THEN "own"
    ELSE IF key \in ObjectPrototypeKeys THEN "inherited"
    ELSE "undefined"

LookupText(obj, key) ==
    IF key \in DOMAIN obj THEN "own"
    ELSE IF key \in ObjectPrototypeTexts THEN "inherited"
    ELSE "undefined"

\* The value obj[key] of a text-valued index, for the caller that stores it:
\* an inherited function is no text of the catalog; it prints as FunctionText.
FunctionText == <<"function Object() { [native code] }">>

(***************************************************************************)
(* The data store's catalog rows, as the reads of buildSnapshot return     *)
(* them.  A read that returns null has its "found" flag FALSE.             *)
(***************************************************************************)
ProductRow(id, name, category) ==
    [id_product |-> id, name |-> name, category |-> category]

MenuRow(id, name, reqs, links) ==
    [id_menu |-> id, name |-> name, category_requirements |-> reqs,
     menu_product |-> links]

ProductsRows ==
    << ProductRow("p1", "Burger", "main"),
       ProductRow("p2", "Cola", "drink"),
       ProductRow("p3", "Pizza", "main"),
       ProductRow("p4", "Fries", "side"),
       ProductRow("p5", "Water", "drink") >>

Mid1 == <<"x","1">>
Mid2 == <<"x","2">>
Name1 == <<"C","o">>
Name2 == <<"D","u">>

\* Menu 1 asks for one main and one drink; its link to p9 is stale (no such
\* product).  Menu 2 asks for one main only.
MenusRows ==
    << MenuRow(Mid1, Name1, << <<"main", 1>>, <<"drink", 1>> >>,
               <<"p1", "p2", "p3", "p4", "p9">>),
       MenuRow(Mid2, Name2, << <<"main", 1>> >>, <<"p1", "p2", "p3">>) >>

\* The same catalog after the establishment dropped a product and a menu.
MenusRowsLater ==
    << MenuRow(Mid1, Name1, << <<"main", 1>> >>, <<"p1", "p2">>) >>

Database(found, schedule, products, productRows, menus, menuRows) ==
    [establishmentFound |-> found, scheduleFound |-> schedule,
     productsFound |-> products, products |-> productRows,
     menusFound |-> menus, menus |-> menuRows]

DbFull == Database(TRUE, TRUE, TRUE, ProductsRows, TRUE, MenusRows)
DbLater == Database(TRUE, TRUE, TRUE, SubSeq(ProductsRows, 1, 3), TRUE, MenusRowsLater)
DbNoEstablishment == Database(FALSE, TRUE, TRUE, ProductsRows, TRUE, MenusRows)
DbNoMenus == Database(TRUE, TRUE, TRUE, ProductsRows, FALSE, << >>)

\* The states of the data store a build may read.
Databases == {DbFull, DbLater, DbNoEstablishment, DbNoMenus}

(***************************************************************************)
(* buildSnapshot (src/src/snapshot.ts).                                    *)
(***************************************************************************)
\* The last position of key k in keys: reduce() lets a later row overwrite.
LastIndexOf(keys, k) ==
    CHOOSE i \in 1..Len(keys) :
        keys[i] = k /\ \A j \in (i + 1)..Len(keys) : keys[j] # k

ProductIds(rows) == [i \in 1..Len(rows) |-> rows[i].id_product]
MenuIds(menus) == [i \in 1..Len(menus) |-> menus[i].id]
MenuLowerNames(menus) == [i \in 1..Len(menus) |-> toLowerCase(menus[i].name)]

\* snapshot.ts:61-67
products_index(rows) ==
    [id \in Range(ProductIds(rows)) |->
        LET r == rows[LastIndexOf(ProductIds(rows), id)]
        IN  [name |-> r.name, category |-> r.category]]

\* snapshot.ts:76-83: the allowed ids found in the index, grouped by category
\* (the category "other" when the product has none), in link order.
OptionCategory(index, pid) ==
    IF index[pid].category # "" THEN index[pid].category ELSE "other"

RECURSIVE OptionsOf(_, _, _)
OptionsOf(index, allowed, cat) ==
    IF allowed = << >> THEN << >>
    ELSE LET pid == Head(allowed)
             rest == OptionsOf(index, Tail(allowed), cat)
         IN  IF pid \in DOMAIN index /\ OptionCategory(index, pid) = cat
             THEN <<[id |-> pid, name |-> index[pid].name]>> \o rest
             ELSE rest

\* Mutant of options_by_category: every product of the index is listed,
\* linked to the menu or not.
options_by_categoryOfIndex(index, allowed) ==
    LET n == Cardinality(DOMAIN index)
        ids == CHOOSE seq \in [1..n -> DOMAIN index] : Range(seq) = DOMAIN index
    IN  [cat \in {OptionCategory(index, pid) : pid \in DOMAIN index} |->
            OptionsOf(index, ids, cat)]

options_by_category(index, allowed) ==
    LET known == {pid \in Range(allowed) : pid \in DOMAIN index}
    IN  [cat \in {OptionCategory(index, pid) : pid \in known} |->
            OptionsOf(index, allowed, cat)]

\* Mutant of normalizedMenu: the links that resolve to no product are
\* dropped from allowed_product_ids.
normalizedMenuResolved(index, m) ==
    LET resolves(pid) == pid \in DOMAIN index
    IN  [id |-> m.id_menu,
         name |-> m.name,
         composition |-> m.category_requirements,
         allowed_product_ids |-> SelectSeq(m.menu_product, resolves),
         options_by_category |-> options_by_category(index, m.menu_product)]

\* snapshot.ts:69-94, one menu row
normalizedMenu(index, m) ==
    [id |-> m.id_menu,
     name |-> m.name,
     composition |-> m.category_requirements,
     allowed_product_ids |-> m.menu_product,
     options_by_category |-> options_by_category(index, m.menu_product)]

\* snapshot.ts:96-99
menus_index_by_id(menus) ==
    [id \in Range(MenuIds(menus)) |-> menus[LastIndexOf(MenuIds(menus), id)]]

\* snapshot.ts:100-103
menus_index_by_name(menus) ==
    [n \in Range(MenuLowerNames(menus)) |->
        menus[LastIndexOf(MenuLowerNames(menus), n)].id]

NoSnapshot == [null |-> TRUE]
IsNull(s) == "null" \in DOMAIN s

\* snapshot.ts:34  the message of the Error for an absent establishment
EstablishmentNotFound == "Establecimiento no encontrado"

\* snapshot.ts:32-40  the reads issued, in order: the establishment, and once
\* it is there the three others together (Promise.all)
reads(db) ==
    IF ~db.establishmentFound THEN <<"establishment">>
    ELSE <<"establishment", "schedule", "products", "menus">>

\* Mutant of readError: a schedule read that returned null goes unnoticed.
readErrorScheduleIgnored(db) ==
    IF ~db.establishmentFound THEN EstablishmentNotFound
    ELSE IF ~db.productsFound THEN "Productos no disponibles"
    ELSE IF ~db.menusFound THEN "Menus no disponibles"
    ELSE ""

\* snapshot.ts:33-34, 42-44  the message of the Error thrown for the first
\* read that returned null, "" when all four returned rows
readError(db) ==
    IF ~db.establishmentFound THEN EstablishmentNotFound
    ELSE IF ~db.scheduleFound THEN "Horario no disponible"
    ELSE IF ~db.productsFound THEN "Productos no disponibles"
    ELSE IF ~db.menusFound THEN "Menus no disponibles"
    ELSE ""

\* Mutant of missingMenuId: a menu row without id_menu is let through.
missingMenuIdIgnored(rows) == FALSE

\* snapshot.ts:70-71  some menu row has no id_menu
missingMenuId(rows) == \E i \in 1..Len(rows) : rows[i].id_menu = << >>

\* snapshot.ts:32-119.  threw is the message of the Error thrown, "" when the
\* snapshot is returned.
buildSnapshot(db) ==
    IF readError(db) # ""
    THEN [threw |-> readError(db), snapshot |-> NoSnapshot, reads |-> reads(db)]
    ELSE IF missingMenuId(db.menus)
    THEN [threw |-> "Menu sin id_menu en BD", snapshot |-> NoSnapshot, reads |-> reads(db)]
    ELSE LET index == products_index(db.products)
             menus == [i \in 1..Len(db.menus) |-> normalizedMenu(index, db.menus[i])]
         IN  [threw |-> "",
              reads |-> reads(db),
              snapshot |->
                [products_index |-> index,
                 menus |-> menus,
                 menus_index_by_id |-> menus_index_by_id(menus),
                 menus_index_by_name |-> menus_index_by_name(menus)]]

\* The snapshots a successful build can return.
Snapshots == {buildSnapshot(db).snapshot : db \in {d \in Databases : buildSnapshot(d).threw = ""}}

(***************************************************************************)
(* coerceMenuId and validateMenuItems (src/src/app.ts).                    *)
(***************************************************************************)
\* app.ts:104-110.  << >> is the null returned when nothing resolves.
coerceMenuId(input, snapshot) ==
    IF LookupText(snapshot.menus_index_by_id, input) # "undefined" THEN input
    ELSE LET lower == toLowerCase(trim(input))
             alias == IF startsWith(lower, MenuPrefix) THEN slice(lower, 5) ELSE lower
             found == LookupText(snapshot.menus_index_by_name, alias)
         IN  IF found = "own" THEN snapshot.menus_index_by_name[alias]
             ELSE IF found = "inherited" THEN FunctionText
             ELSE << >>

\* A detail entry of add_details_order (app.ts:65-80).
Detail(order, product, menu, selected) ==
    [id_order |-> order, id_product |-> product, id_menu |-> menu,
     selected_products |-> selected]

\* What validateMenuItems returns: {ok: true}, or {ok: false, error} with the
\* parts its message is made of.  kind "TypeError" is the exception thrown
\* when a field of an inherited property is read (app.ts:129).
Result(ok, kind, product, menu, cat, qty) ==
    [ok |-> ok, kind |-> kind, product |-> product, menu |-> menu,
     cat |-> cat, qty |-> qty]

ResultOk == Result(TRUE, "ok", "", << >>, "", 0)

\* app.ts:132  counts[p.category] = (counts[p.category] || 0) + 1
Tally(counts, cat) ==
    [c \in DOMAIN counts \cup {cat} |->
        (IF c \in DOMAIN counts THEN counts[c] ELSE 0) + (IF c = cat THEN 1 ELSE 0)]

\* app.ts:135  counts[cat] || 0
CountOf(counts, cat) == IF cat \in DOMAIN counts THEN counts[cat] ELSE 0

\* Mutant of checkComposition: "at least" the required count instead of
\* exactly the required count.
RECURSIVE checkCompositionAtLeast(_, _, _)
checkCompositionAtLeast(menuName, comp, counts) ==
    IF comp = << >> THEN ResultOk
    ELSE LET cat == Head(comp)[1]
             qty == Head(comp)[2]
         IN  IF CountOf(counts, cat) < qty
             THEN Result(FALSE, "Seleccion incompleta", "", menuName, cat, qty)
             ELSE checkCompositionAtLeast(menuName, Tail(comp), counts)

\* app.ts:134-138: the first category of the composition, in the order of
\* Object.entries, whose count differs from the required one.
RECURSIVE checkComposition(_, _, _)
checkComposition(menuName, comp, counts) ==
    IF comp = << >> THEN ResultOk
    ELSE LET cat == Head(comp)[1]
             qty == Head(comp)[2]
         IN  IF CountOf(counts, cat) # qty
             THEN Result(FALSE, "Seleccion incompleta", "", menuName, cat, qty)
             ELSE checkComposition(menuName, Tail(comp), counts)

\* Mutant of checkSelected: the test against allowed_product_ids is left out.
RECURSIVE checkSelectedAnyProduct(_, _, _, _)
checkSelectedAnyProduct(snapshot, menu, selected, counts) ==
    IF selected = << >> THEN checkComposition(menu.name, menu.composition, counts)
    ELSE LET pid == Head(selected)
             p == Lookup(snapshot.products_index, pid)
         IN  IF p = "undefined"
             THEN Result(FALSE, "Producto seleccionado no valido", pid, << >>, "", 0)
             ELSE checkSelectedAnyProduct(snapshot, menu, Tail(selected),
                    Tally(counts, IF p = "own"
                                  THEN snapshot.products_index[pid].category
                                  ELSE "undefined"))

\* app.ts:126-138 for a menu of the snapshot: the selected products one by
\* one, then the composition.
RECURSIVE checkSelected(_, _, _, _)
checkSelected(snapshot, menu, selected, counts) ==
    IF selected = << >> THEN checkComposition(menu.name, menu.composition, counts)
    ELSE LET pid == Head(selected)
             p == Lookup(snapshot.products_index, pid)
         IN  IF p = "undefined"
             THEN Result(FALSE, "Producto seleccionado no valido", pid, << >>, "", 0)
             ELSE IF pid \notin Range(menu.allowed_product_ids)
             THEN Result(FALSE, "Producto no permitido en menu", pid, menu.name, "", 0)
             ELSE checkSelected(snapshot, menu, Tail(selected),
                    Tally(counts, IF p = "own"
                                  THEN snapshot.products_index[pid].category
                                  ELSE "undefined"))

\* app.ts:126-138 when menus_index_by_id[d.id_menu] is an inherited property:
\* it is truthy, its composition is undefined (so {}), and reading
\* allowed_product_ids.includes of it throws for the first selected product
\* that products_index finds.
checkSelectedInherited(snapshot, selected) ==
    IF selected = << >> THEN ResultOk
    ELSE IF Lookup(snapshot.products_index, Head(selected)) = "undefined"
    THEN Result(FALSE, "Producto seleccionado no valido", Head(selected), << >>, "", 0)
    ELSE Result(FALSE, "TypeError", Head(selected), << >>, "", 0)

\* Mutant of validateFrom: the loop goes on after a rejected entry and the
\* error of the last rejected entry is returned.
RECURSIVE validateFromLastError(_, _)
validateFromLastError(snapshot, details) ==
    IF details = << >> THEN ResultOk
    ELSE LET d == Head(details)
             rest == validateFromLastError(snapshot, Tail(details))
             menu == LookupText(snapshot.menus_index_by_id, d.id_menu)
             r == IF d.id_product # ""
                  THEN IF d.id_product \notin DOMAIN snapshot.products_index
                       THEN Result(FALSE, "Producto inexistente", d.id_product, << >>, "", 0)
                       ELSE ResultOk
                  ELSE IF d.id_menu = << >> THEN ResultOk
                  ELSE IF menu = "undefined"
                  THEN Result(FALSE, "Menu inexistente", "", d.id_menu, "", 0)
                  ELSE IF menu = "own"
                  THEN checkSelected(snapshot, snapshot.menus_index_by_id[d.id_menu],
                                     d.selected_products, << >>)
                  ELSE checkSelectedInherited(snapshot, d.selected_products)
         IN  IF rest.ok THEN r ELSE rest

\* app.ts:115-141, the loop over the entries
RECURSIVE validateFrom(_, _)
validateFrom(snapshot, details) ==
    IF details = << >> THEN ResultOk
    ELSE LET d == Head(details)
         IN  IF d.id_product # ""
             THEN IF d.id_product \notin DOMAIN snapshot.products_index
                  THEN Result(FALSE, "Producto inexistente", d.id_product, << >>, "", 0)
                  ELSE validateFrom(snapshot, Tail(details))
             ELSE IF d.id_menu # << >>
             THEN LET menu == LookupText(snapshot.menus_index_by_id, d.id_menu)
                      r == IF menu = "own"
                           THEN checkSelected(snapshot, snapshot.menus_index_by_id[d.id_menu],
                                              d.selected_products, << >>)
                           ELSE checkSelectedInherited(snapshot, d.selected_products)
                  IN  IF menu = "undefined"
                      THEN Result(FALSE, "Menu inexistente", "", d.id_menu, "", 0)
                      ELSE IF ~r.ok THEN r
                      ELSE validateFrom(snapshot, Tail(details))
             ELSE validateFrom(snapshot, Tail(details))

\* app.ts:112-142
validateMenuItems(snapshot, details) == validateFrom(snapshot, details)

(***************************************************************************)
(* The tool calls the model may return and what the collaborators answer.  *)
(***************************************************************************)
IdChatFromClient == "855e9331"            \* app.ts:22
IdEstablishmentFromClient == "c7831588"   \* app.ts:23
StatusCreated == 201

\* add_order arguments (app.ts:96-102).  is_pickup is "true", "false" or ""
\* when the model left it out; address is "" when left out.
AddOrderArgs ==
    [id_chat : {IdChatFromClient, "other-chat"},
     id_establishment : {IdEstablishmentFromClient, "other-establishment"},
     is_pickup : {"true", "false", ""},
     address : {"", "Calle 1"}]

MenuAlias1 == <<"M","E","N","U","_","C","o">>

\* args.details lists the model may send (a details argument that is no
\* array is taken as [], app.ts:287): none; a product under another order's id
\* and a menu named by alias; a product and a menu with one selection; an
\* unknown product; a menu reference only Object.prototype knows, with a
\* selection; an entry that names a product and a menu, then one that names
\* neither.
DetailLists ==
    { << >>,
      << Detail(7, "p1", << >>, << >>), Detail(0, "", MenuAlias1, <<"p1", "p2">>) >>,
      << Detail(0, "p1", << >>, << >>), Detail(1, "", Mid1, <<"p1">>) >>,
      << Detail(0, "p9", << >>, << >>) >>,
      << Detail(0, "", ConstructorText, <<"p1">>) >>,
      << Detail(0, "p1", Mid1, << >>), Detail(0, "", << >>, << >>) >> }

\* insertOrder and insertDetailsOrder answer with status 201 and the created
\* rows, or with another status and an error.
InsertStatuses == {StatusCreated, 409}

\* a functionResponse part / saved row: the tool and the shape of its response
Response(name, fields, success, id_order, validation) ==
    [name |-> name, fields |-> fields, success |-> success,
     id_order |-> id_order, validation |-> validation]

Message(role, part, name) == [role |-> role, part |-> part, name |-> name]

NoResponse == Response("", "", "", 0, ResultOk)

\* What a dispatched tool call did (observation only): the state it started
\* from, the collaborators it called with which arguments, and its answer.
\*   args: the arguments of add_order as the model sent them, once the call
\*   got past the open-order check;  built: buildSnapshot was called;  buildError: the message of the Error it
\*   threw, "" when it threw none;  inserted: the rows given to
\*   insertOrder;  status: the status insertOrder or insertDetailsOrder
\*   returned, 0 when neither was called;  raw: args.details as the model sent
\*   it;  validated: the lists given to validateMenuItems;  sent: the lists
\*   given to insertDetailsOrder;  establishmentMissing: a build found no
\*   establishment, in this call or in an earlier call of the same round.
NoTrace ==
    [op |-> "none", threw |-> FALSE, built |-> FALSE, buildError |-> "",
     establishmentMissing |-> FALSE, args |-> << >>,
     inserted |-> << >>,
     status |-> 0, raw |-> << >>, validated |-> << >>, sent |-> << >>,
     orderBefore |-> 0, snapshotBefore |-> NoSnapshot, detailsBefore |-> {},
     response |-> NoResponse]

Started(op) ==
    [NoTrace EXCEPT !.op = op,
                    !.establishmentMissing = trace.establishmentMissing /\ parts # << >>,
                    !.orderBefore = currentOrderId,
                    !.snapshotBefore = lastSnapshot, !.detailsBefore = detailsStore]

(***************************************************************************)
(* handleFunctionCalls (app.ts:208-356) and the turns that call it.        *)
(***************************************************************************)
\* an exception left handleFunctionCalls: the initial turn is not guarded
\* (app.ts:368-376, 432), a user turn is (app.ts:387-397)
AfterThrow == IF turn = 0 THEN "crashed" ELSE "idle"

\* Mutant of hasFunctionCalls: the loop is never entered.
hasFunctionCallsNever(n) == FALSE

\* app.ts:209  response.functionCalls && response.functionCalls.length > 0
hasFunctionCalls(n) == n > 0

\* the model's response opens a round of n function calls, or none
Respond(n) ==
    /\ pending' = n
    /\ parts' = << >>
    /\ messages' = << >>
    /\ IF ~hasFunctionCalls(n)
       THEN pc' = "idle" /\ rounds' = 0
       ELSE pc' = "dispatch" /\ rounds' = rounds + 1

\* app.ts:157  rows.map(r => ({ role: r.role, parts: r.parts })): the objects
\* given to rowsToGenAiHistory have a role and parts, and no message
Undefined == [kind |-> "undefined", name |-> ""]

mapRows(rows) == [i \in 1..Len(rows) |-> [role |-> rows[i].role, message |-> Undefined]]

\* history-mapping.ts:4-34  a row of role user or model becomes a text part
\* of r.message; a row of role function becomes a functionResponse part of
\* role model when r.message parses as JSON, a text part when JSON.parse
\* throws; a row of another role is left out
RECURSIVE rowsToGenAiHistory(_)
rowsToGenAiHistory(rows) ==
    IF rows = << >> THEN << >>
    ELSE LET r == Head(rows)
             rest == rowsToGenAiHistory(Tail(rows))
         IN  IF r.role = "user" THEN <<Message("user", "text", "")>> \o rest
             ELSE IF r.role \in {"assistant", "model"}
             THEN <<Message("model", "text", "")>> \o rest
             ELSE IF r.role = "function"
             THEN IF r.message.kind = "json"
                  THEN <<Message("model", "functionResponse", r.message.name)>> \o rest
                  ELSE <<Message("model", "text", "")>> \o rest
             ELSE rest

\* app.ts:361-366
hasRecentSnapshot(history) ==
    \E k \in 1..Len(history) :
        /\ history[k].role = "user"
        /\ history[k].part = "functionResponse"
        /\ history[k].name = "get_establishment_snapshot"

\* the rows an earlier session may have left in the store: none, or the call
\* and the response of a snapshot fetch (app.ts:217, 222)
StoredHistories ==
    { << >>,
      << Message("model", "functionCall", "get_establishment_snapshot"),
         Message("user", "functionResponse", "get_establishment_snapshot") >> }

\* app.ts:156-157, 361-376  the history is loaded; the initial message is
\* sent unless the history holds a snapshot.  Nothing guards its sendMessage
\* (app.ts:369): when it rejects, main does.
InitialTurn ==
    /\ pc = "start"
    /\ \E rows \in StoredHistories :
         IF hasRecentSnapshot(rowsToGenAiHistory(mapRows(rows)))
         THEN pc' = "idle" /\ UNCHANGED <<rounds, pending, parts, messages>>
         ELSE \/ \E n \in 0..MaxCalls : Respond(n)
              \/ pc' = "crashed" /\ UNCHANGED <<rounds, pending, parts, messages>>
    /\ UNCHANGED <<lastSnapshot, currentOrderId, turn, orders, detailsStore, trace, valVars, coerceVars, cliVars, buildVars, historyVars>>

\* app.ts:382-390  a debounced message is sent and the model answers
UserTurn ==
    /\ pc = "idle"
    /\ turn < MaxTurns
    /\ turn' = turn + 1
    /\ \E n \in 0..MaxCalls : Respond(n)
    /\ UNCHANGED <<lastSnapshot, currentOrderId, orders, detailsStore, trace, valVars, coerceVars, cliVars, buildVars, historyVars>>

Dispatching == pc = "dispatch" /\ pending > 0

\* the call is saved, answered with a part, and the answer is saved
Answer(tr, response) ==
    /\ parts' = Append(parts, response)
    /\ messages' = messages \o <<Message("model", "functionCall", response.name),
                                 Message("user", "functionResponse", response.name)>>
    /\ pending' = pending - 1
    /\ trace' = [tr EXCEPT !.response = response]
    /\ UNCHANGED <<pc, turn, rounds>>

\* the call is saved and an exception leaves handleFunctionCalls
Throw(tr) ==
    /\ pc' = AfterThrow
    /\ pending' = 0
    /\ rounds' = 0
    /\ parts' = << >>
    /\ messages' = Append(messages, Message("model", "functionCall", tr.op))
    /\ trace' = [tr EXCEPT !.threw = TRUE]
    /\ UNCHANGED turn

\* Mutant of cachedAfterFailure: a failed build clears the cached snapshot.
cachedClearedAfterFailure(cached) == NoSnapshot

\* app.ts:224-228  the catch block does not touch lastSnapshot
cachedAfterFailure(cached) == cached

\* app.ts:216-229
GetEstablishmentSnapshot ==
    /\ Dispatching
    /\ \E db \in Databases :
         LET built == buildSnapshot(db)
             tr == [Started("get_establishment_snapshot") EXCEPT
                        !.built = TRUE, !.buildError = built.threw,
                        !.establishmentMissing = @ \/ built.threw = EstablishmentNotFound]
         IN  IF built.threw = ""
             THEN /\ lastSnapshot' = built.snapshot
                  /\ Answer(tr, Response(tr.op, "snapshot", "", 0, ResultOk))
             ELSE /\ lastSnapshot' = cachedAfterFailure(lastSnapshot)
                  /\ Answer(tr, Response(tr.op, "error", "", 0, ResultOk))
    /\ UNCHANGED <<currentOrderId, orders, detailsStore, valVars, coerceVars, cliVars, buildVars, historyVars>>

\* Mutant of sessionChatId: the id_chat the model sent is taken.
sessionChatIdFromArgs(rawArgs) == rawArgs.id_chat

\* app.ts:243  id_chat: idChatFromClient
sessionChatId(rawArgs) == IdChatFromClient

\* Mutant of safeArgs: a pickup order that comes with an address is left a
\* pickup order.
safeArgsUncorrected(rawArgs) ==
    [id_chat |-> IdChatFromClient,
     id_establishment |-> IdEstablishmentFromClient,
     is_pickup |-> IF rawArgs.is_pickup = "" THEN TRUE ELSE rawArgs.is_pickup = "true",
     address |-> rawArgs.address]

\* app.ts:242-256  the row given to insertOrder
safeArgs(rawArgs) ==
    LET is_pickup == IF rawArgs.is_pickup = "" THEN TRUE ELSE rawArgs.is_pickup = "true"
    IN  [id_chat |-> sessionChatId(rawArgs),
         id_establishment |-> IdEstablishmentFromClient,
         is_pickup |-> IF rawArgs.address # "" /\ is_pickup THEN FALSE ELSE is_pickup,
         address |-> rawArgs.address]

\* app.ts:257  a delivery without address
MissingAddress(args) == ~args.is_pickup /\ args.address = ""

\* Mutant of OpenOrderId: a call does not see the order that an add_order
\* call of the same round left open.
OpenOrderIdBeforeRound ==
    IF \E k \in 1..Len(parts) : parts[k].name = "add_order" /\ parts[k].id_order # 0
    THEN 0
    ELSE currentOrderId

\* app.ts:233, 289, 301  currentOrderId as the call being dispatched reads it
OpenOrderId == currentOrderId

\* Mutant of AlreadyOpen: add_order does not look at the open order.
AlreadyOpenUnchecked == FALSE

\* app.ts:233  add_order finds an order open
AlreadyOpen == OpenOrderId # 0

\* Mutant of Created: the status of the insert is not looked at.
CreatedUnchecked(status) == TRUE

\* app.ts:268  the insert succeeded
Created(status) == status = StatusCreated

\* app.ts:275  data[0].id_order of the row the store created
CreatedOrderId == Len(orders) + 1

\* app.ts:231-281
AddOrder ==
    /\ Dispatching
    /\ \E rawArgs \in AddOrderArgs :
         LET args == safeArgs(rawArgs)
             tr == Started("add_order")
             asked == [tr EXCEPT !.args = <<rawArgs>>]
         IN  IF AlreadyOpen
             THEN /\ Answer(tr, Response(tr.op, "id_order", "", OpenOrderId, ResultOk))
                  /\ UNCHANGED <<currentOrderId, orders>>
             ELSE IF MissingAddress(args)
             THEN /\ Answer(asked, Response(tr.op, "success,error", "false", 0, ResultOk))
                  /\ UNCHANGED <<currentOrderId, orders>>
             ELSE \E status \in IF Len(orders) < MaxOrders THEN InsertStatuses
                                ELSE InsertStatuses \ {StatusCreated} :
                  LET called == [asked EXCEPT !.inserted = <<args>>, !.status = status]
                  IN  IF ~Created(status)
                      THEN /\ Answer(called, Response(tr.op, "success,error", "false", 0, ResultOk))
                           /\ UNCHANGED <<currentOrderId, orders>>
                      ELSE /\ orders' = Append(orders, [id_order |-> CreatedOrderId, row |-> args])
                           /\ currentOrderId' = CreatedOrderId
                           /\ Answer(called, Response(tr.op, "id_order", "", CreatedOrderId, ResultOk))
    /\ UNCHANGED <<lastSnapshot, detailsStore, valVars, coerceVars, cliVars, buildVars, historyVars>>

\* Mutant of NoOpenOrder: add_details_order goes on without an open order.
NoOpenOrderUnchecked == FALSE

\* app.ts:289  add_details_order finds no order open
NoOpenOrder == OpenOrderId = 0

\* Mutant of forceOrderId: the id_order the model sent is kept.
forceOrderIdKept(details, id) == details

\* app.ts:301  every detail points to the open order
forceOrderId(details, id) == [i \in 1..Len(details) |-> [details[i] EXCEPT !.id_order = id]]

\* app.ts:308-316  id_menu replaced when it is no id and resolves
coerceDetail(d, snapshot) ==
    IF d.id_menu # << >> /\ LookupText(snapshot.menus_index_by_id, d.id_menu) = "undefined"
    THEN LET mapped == coerceMenuId(d.id_menu, snapshot)
         IN  IF mapped # << >> THEN [d EXCEPT !.id_menu = mapped] ELSE d
    ELSE d

coerceDetails(details, snapshot) ==
    [i \in 1..Len(details) |-> coerceDetail(details[i], snapshot)]

\* Mutant of Rejected: the details are forwarded whatever the validation says.
RejectedNever(validation) == FALSE

\* app.ts:320  the validation failed
Rejected(validation) == ~validation.ok

\* Mutant of needsBuild: add_details_order builds a snapshot every time.
needsBuildAlways(cached) == TRUE

\* app.ts:304  lastSnapshot ?? ...: the build is called when nothing is cached
needsBuild(cached) == IsNull(cached)

\* app.ts:282-342
AddDetailsOrder ==
    /\ Dispatching
    /\ \E rawDetails \in DetailLists,
          db \in IF ~NoOpenOrder /\ needsBuild(lastSnapshot) THEN Databases ELSE {DbFull} :
         LET tr == [Started("add_details_order") EXCEPT !.raw = <<rawDetails>>]
             built == IF needsBuild(lastSnapshot) THEN buildSnapshot(db)
                      ELSE [threw |-> "", snapshot |-> lastSnapshot]
             snapshot == built.snapshot
             details == coerceDetails(forceOrderId(rawDetails, OpenOrderId), snapshot)
             validation == validateMenuItems(snapshot, details)
             checked == [tr EXCEPT !.built = needsBuild(lastSnapshot), !.validated = <<details>>]
         IN  IF NoOpenOrder
             THEN /\ Answer(tr, Response(tr.op, "success,message", "false", 0, ResultOk))
                  /\ UNCHANGED <<lastSnapshot, detailsStore>>
             ELSE IF built.threw # ""
             THEN /\ Throw([tr EXCEPT !.built = TRUE, !.buildError = built.threw,
                                       !.establishmentMissing = @ \/ built.threw = EstablishmentNotFound])
                  /\ UNCHANGED <<lastSnapshot, detailsStore>>
             ELSE /\ lastSnapshot' = snapshot
                  /\ IF validation.kind = "TypeError"
                     THEN /\ Throw(checked)
                          /\ UNCHANGED detailsStore
                     ELSE IF Rejected(validation)
                     THEN /\ Answer(checked, Response(tr.op, "success,message", "false", 0, validation))
                          /\ UNCHANGED detailsStore
                     ELSE \E status \in InsertStatuses :
                          LET called == [checked EXCEPT !.sent = <<details>>, !.status = status]
                          IN  IF status # StatusCreated
                              THEN /\ Answer(called, Response(tr.op, "success,error", "false", 0, validation))
                                   /\ UNCHANGED detailsStore
                              ELSE /\ detailsStore' = detailsStore \cup Range(details)
                                   /\ Answer(called, Response(tr.op, "success,message", "true", 0, validation))
    /\ UNCHANGED <<currentOrderId, orders, valVars, coerceVars, cliVars, buildVars, historyVars>>

\* app.ts:213-343  a function call whose name is none of the three tools
UnknownTool ==
    /\ Dispatching
    /\ pending' = pending - 1
    /\ trace' = Started("unknown")
    /\ UNCHANGED <<lastSnapshot, currentOrderId, pc, turn, rounds, parts, messages,
                   orders, detailsStore, valVars, coerceVars, cliVars, buildVars, historyVars>>

\* app.ts:344-355  the parts go back to the model, which answers with more
\* function calls or with none; without parts the loop ends
SendParts ==
    /\ pc = "dispatch"
    /\ pending = 0
    /\ IF parts = << >>
       THEN Respond(0)
       ELSE \E n \in 0..(IF rounds < MaxRounds THEN MaxCalls ELSE 0) : Respond(n)
    /\ UNCHANGED <<lastSnapshot, currentOrderId, turn, orders, detailsStore, trace, valVars, coerceVars, cliVars, buildVars, historyVars>>

\* the state after the module is loaded (app.ts:90-91) and before main runs
ControllerIdle ==
    /\ lastSnapshot = NoSnapshot
    /\ currentOrderId = 0
    /\ pc = "start"
    /\ turn = 0
    /\ rounds = 0
    /\ pending = 0
    /\ parts = << >>
    /\ messages = << >>
    /\ orders = << >>
    /\ detailsStore = {}
    /\ trace = NoTrace

\* validateMenuItems is not being applied to drawn inputs
ValidateOff ==
    /\ vSnapshot = NoSnapshot
    /\ vDetails = << >>
    /\ vResult = ResultOk
    /\ vPc = "off"

\* coerceMenuId is not being applied to drawn inputs
CoerceOff ==
    /\ cSnapshot = NoSnapshot
    /\ cPieces = << >>
    /\ cResult = << >>
    /\ cPc = "off"

\* the CLI loop has not begun
CliOff ==
    /\ inputs = << >>
    /\ mensajesAcumulados = << >>
    /\ debounceTimeout = 0
    /\ timers = {}
    /\ cliTurns = << >>
    /\ cliPc = "off"

\* buildSnapshot is not being applied to drawn inputs
BuildOff ==
    /\ bDb = Database(TRUE, TRUE, TRUE, << >>, TRUE, << >>)
    /\ bResult = [threw |-> "", snapshot |-> NoSnapshot, reads |-> << >>]
    /\ bPc = "off"

\* the history load is not being applied to drawn rows
HistoryOff ==
    /\ hRows = << >>
    /\ hHistory = << >>
    /\ hSent = FALSE
    /\ hPc = "off"

Init ==
    /\ ControllerIdle
    /\ HistoryOff
    /\ ValidateOff
    /\ CoerceOff
    /\ CliOff
    /\ BuildOff

Next ==
    \/ InitialTurn
    \/ UserTurn
    \/ GetEstablishmentSnapshot
    \/ AddOrder
    \/ AddDetailsOrder
    \/ UnknownTool
    \/ SendParts

Spec == Init /\ [][Next]_vars

(***************************************************************************)
(* validateMenuItems applied to drawn inputs: a snapshot that a build      *)
(* returned and a details list put together entry by entry.                *)
(***************************************************************************)
UnknownMenu == <<"z","9">>

\* selected_products lists the model may send
SelectedInputs ==
    { << >>, <<"p1">>, <<"p2">>, <<"p1", "p2">>, <<"p2", "p1">>, <<"p1", "p3">>,
      <<"p1", "p2", "p3">>, <<"p1", "p2", "p4">>, <<"p1", "p9">>, <<"p5", "p9">>,
      <<"p1", "p5">>, <<"constructor">> }

\* detail entries the model may send: products, menus, both ids, neither
DetailInputs ==
    {Detail(0, p, m, << >>) : p \in {"p1", "p9", "constructor"}, m \in {<< >>, UnknownMenu}}
    \cup {Detail(0, "", m, sel) : m \in {Mid1, Mid2, UnknownMenu, ConstructorText},
                                   sel \in SelectedInputs}
    \cup {Detail(0, "", << >>, << >>)}

\* A catalog with a product that has no category (p4), linked by a menu that
\* asks for one main and one product of the category "other".
DbUncategorised ==
    Database(TRUE, TRUE, TRUE,
             << ProductRow("p1", "Burger", "main"), ProductRow("p2", "Cola", "drink"),
                ProductRow("p4", "Bread", "") >>,
             TRUE,
             << MenuRow(Mid1, Name1, << <<"main", 1>>, <<"other", 1>> >>,
                        <<"p1", "p2", "p4">>) >>)

\* the snapshots validateMenuItems is applied to
ValidateSnapshots == Snapshots \cup {buildSnapshot(DbUncategorised).snapshot}

InitValidate ==
    /\ ControllerIdle
    /\ HistoryOff
    /\ BuildOff
    /\ CoerceOff
    /\ CliOff
    /\ vSnapshot \in ValidateSnapshots
    /\ vDetails = << >>
    /\ vResult = ResultOk
    /\ vPc = "input"

\* one more entry of the list given to validateMenuItems
VAppend ==
    /\ vPc = "input"
    /\ Len(vDetails) < MaxDetails
    /\ \E d \in DetailInputs : vDetails' = Append(vDetails, d)
    /\ UNCHANGED <<vSnapshot, vResult, vPc, ctlVars, coerceVars, cliVars, buildVars, historyVars>>

\* the call validateMenuItems(snapshot, details)
VValidate ==
    /\ vPc = "input"
    /\ vResult' = validateMenuItems(vSnapshot, vDetails)
    /\ vPc' = "done"
    /\ UNCHANGED <<vSnapshot, vDetails, ctlVars, coerceVars, cliVars, buildVars, historyVars>>

NextValidate == VAppend \/ VValidate

SpecValidate == InitValidate /\ [][NextValidate]_vars

(***************************************************************************)
(* coerceMenuId applied to drawn inputs: a snapshot that a build returned  *)
(* and a menu reference put together from pieces (blanks, the "menu_"      *)
(* prefix in several cases, menu names in several cases, menu ids, a name  *)
(* only Object.prototype knows, an unknown name).                          *)
(***************************************************************************)
MaxPieces == 3       \* pieces one menu reference is made of

InputPieces ==
    { <<" ">>,
      <<"M","E","N","U","_">>, <<"m","e","n","u","_">>, <<"M","e","n","u","_">>,
      Name1, <<"c","o">>, <<"C","O">>, Name2,
      Mid1, Mid2,
      ConstructorText,
      <<"z">> }

\* A catalog whose menu names are less tidy: one ends with a blank, one
\* begins with "Menu_".
MenusRowsNamed ==
    << MenuRow(Mid1, <<"C","o"," ">>, << <<"main", 1>> >>, <<"p1", "p2">>),
       MenuRow(Mid2, <<"M","e","n","u","_","z">>, << <<"main", 1>> >>, <<"p1">>) >>

DbNamed == Database(TRUE, TRUE, TRUE, ProductsRows, TRUE, MenusRowsNamed)

\* the snapshots coerceMenuId is applied to
CoerceSnapshots == Snapshots \cup {buildSnapshot(DbNamed).snapshot}

\* the text the pieces make
RECURSIVE InputText(_)
InputText(pieces) ==
    IF pieces = << >> THEN << >> ELSE Head(pieces) \o InputText(Tail(pieces))

InitCoerce ==
    /\ ControllerIdle
    /\ HistoryOff
    /\ BuildOff
    /\ ValidateOff
    /\ CliOff
    /\ cSnapshot \in CoerceSnapshots
    /\ cPieces = << >>
    /\ cResult = << >>
    /\ cPc = "input"

\* one more piece of the text given to coerceMenuId
CAppend ==
    /\ cPc = "input"
    /\ Len(cPieces) < MaxPieces
    /\ \E piece \in InputPieces : cPieces' = Append(cPieces, piece)
    /\ UNCHANGED <<cSnapshot, cResult, cPc, ctlVars, valVars, cliVars, buildVars, historyVars>>

\* the call coerceMenuId(input, snapshot)
CCoerce ==
    /\ cPc = "input"
    /\ cResult' = coerceMenuId(InputText(cPieces), cSnapshot)
    /\ cPc' = "done"
    /\ UNCHANGED <<cSnapshot, cPieces, ctlVars, valVars, cliVars, buildVars, historyVars>>

NextCoerce == CAppend \/ CCoerce

SpecCoerce == InitCoerce /\ [][NextCoerce]_vars

(***************************************************************************)
(* The CLI loop with debounce (app.ts:378-429).  main awaits a line; a     *)
(* line that is no exit command is buffered and (re)arms the timer; the    *)
(* timer callback and the exit branch call procesarMensajes, whose awaits  *)
(* let lines, timers and other calls of procesarMensajes run in between.   *)
(* All timers have the same delay, so they fire in the order they were     *)
(* set.  A turn here is one call of procesarMensajes that found lines      *)
(* buffered; its tool calls are the ones of handleFunctionCalls.  Of an    *)
(* add_order call the open-order check and the insert it awaits are two    *)
(* steps; of the other calls only the number matters here.                 *)
(***************************************************************************)
MaxInputs == 3       \* lines typed that are no exit command

SalirText == <<"s","a","l","i","r">>

\* the exit command as the user may type it
ExitLines == { SalirText, <<"S","a","l","i","r">> }

\* the other lines the user types, in the order typed: words, an empty line,
\* a line that only looks like the exit command
OtherLines ==
    << <<"a">>, <<"b","c">>, << >>, <<"s","a","l","i","r"," ">>, <<"d">> >>

TypedLine(k) == OtherLines[((k - 1) % Len(OtherLines)) + 1]

\* app.ts:407  userInput.toLowerCase() === 'salir'
IsExit(line) == toLowerCase(line) = SalirText

\* Array.prototype.join(' ')
RECURSIVE join(_)
join(texts) ==
    IF texts = << >> THEN << >>
    ELSE IF Len(texts) = 1 THEN Head(texts)
    ELSE Head(texts) \o <<" ">> \o join(Tail(texts))

\* the texts of the buffered lines
Texts(buffer) == [i \in 1..Len(buffer) |-> inputs[buffer[i]]]

\* Mutant of afterTake: the buffer is left as it is when a turn takes it.
afterTakeKept(buffer) == buffer

\* app.ts:385  mensajesAcumulados = []
afterTake(buffer) == << >>

InFlight(t) == cliTurns[t].pc # "done"

\* app.ts:383-388  procesarMensajes finds lines buffered: it joins them,
\* empties the buffer and awaits saveMessage and chat.sendMessage.  quiet,
\* overlap and late only record what the state was when the turn began:
\* whether no line was typed since the timer that fired was set, whether
\* another turn was in flight, whether main had returned.
StartTurn(origin, quiet) ==
    /\ cliTurns' = Append(cliTurns,
          [origin |-> origin,
           batch |-> mensajesAcumulados,
           message |-> join(Texts(mensajesAcumulados)),
           pc |-> "sending",
           calls |-> 0,
           delivered |-> FALSE,
           quiet |-> quiet,
           overlap |-> \E t \in 1..Len(cliTurns) : InFlight(t),
           late |-> cliPc = "closed"])
    /\ mensajesAcumulados' = afterTake(mensajesAcumulados)

Alive == cliPc \in {"prompt", "flushing", "closed"}

\* app.ts:406, 418-423  a line that is no exit command
InputLine ==
    /\ cliPc = "prompt"
    /\ Len(inputs) < MaxInputs
    /\ ~IsExit(TypedLine(Len(inputs) + 1))
    /\ inputs' = Append(inputs, TypedLine(Len(inputs) + 1))
    /\ mensajesAcumulados' = Append(mensajesAcumulados, Len(inputs) + 1)
    /\ timers' = (timers \ {debounceTimeout}) \cup {Len(inputs) + 1}
    /\ debounceTimeout' = Len(inputs) + 1
    /\ UNCHANGED <<cliTurns, cliPc, ctlVars, valVars, coerceVars, buildVars, historyVars>>

\* app.ts:406-416, 427-429  the exit command
ExitLine ==
    /\ cliPc = "prompt"
    /\ \E line \in ExitLines : IsExit(line)
    /\ IF debounceTimeout # 0
       THEN /\ timers' = timers \ {debounceTimeout}
            /\ IF mensajesAcumulados = << >>
               THEN /\ cliPc' = "closed"
                    /\ UNCHANGED <<cliTurns, mensajesAcumulados>>
               ELSE /\ StartTurn("exit", TRUE)
                    /\ cliPc' = "flushing"
       ELSE /\ cliPc' = "closed"
            /\ UNCHANGED <<timers, cliTurns, mensajesAcumulados>>
    /\ UNCHANGED <<inputs, debounceTimeout, ctlVars, valVars, coerceVars, buildVars, historyVars>>

\* the timer set first among the pending ones
FirstTimer == CHOOSE k \in timers : \A j \in timers : k <= j

\* app.ts:420-423  the timer callback
TimerFires ==
    /\ Alive
    /\ timers # {}
    /\ timers' = timers \ {FirstTimer}
    /\ IF mensajesAcumulados = << >>
       THEN /\ debounceTimeout' = 0
            /\ UNCHANGED <<cliTurns, mensajesAcumulados>>
       ELSE /\ StartTurn("timer", FirstTimer = Len(inputs))
            /\ UNCHANGED debounceTimeout
    /\ UNCHANGED <<inputs, cliPc, ctlVars, valVars, coerceVars, buildVars, historyVars>>

\* procesarMensajes resolves: the timer callback goes on to app.ts:422, main
\* goes on to app.ts:412-415 and 428
Finish(t) ==
    /\ cliTurns' = [cliTurns EXCEPT ![t].pc = "done"]
    /\ IF cliTurns[t].origin = "timer"
       THEN debounceTimeout' = 0 /\ UNCHANGED cliPc
       ELSE cliPc' = "closed" /\ UNCHANGED debounceTimeout

\* app.ts:388-389  saveMessage and chat.sendMessage resolve, the model
\* answering with some function calls or none, or one of them rejects
TurnSendOf(t) ==
    /\ Alive
    /\ cliTurns[t].pc = "sending"
    /\ \/ \E n \in 0..MaxCalls :
            cliTurns' = [cliTurns EXCEPT ![t].pc = "handling", ![t].calls = n,
                                         ![t].delivered = TRUE]
       \/ cliTurns' = [cliTurns EXCEPT ![t].pc = "apology"]
    /\ UNCHANGED <<inputs, mensajesAcumulados, debounceTimeout, timers, cliPc,
                   ctlVars, valVars, coerceVars, buildVars, historyVars>>

\* the arguments of the add_order calls of the CLI turns: a pickup order
PickupArgs ==
    [id_chat |-> IdChatFromClient, id_establishment |-> IdEstablishmentFromClient,
     is_pickup |-> "true", address |-> ""]

\* app.ts:231-264  an add_order call reads currentOrderId: with an order open
\* it is answered at once, without one it calls insertOrder and awaits it
TurnAddOrderOf(t) ==
    /\ Alive
    /\ cliTurns[t].pc = "handling"
    /\ cliTurns[t].calls > 0
    /\ IF AlreadyOpen
       THEN cliTurns' = [cliTurns EXCEPT ![t].calls = @ - 1,
                                         ![t].late = @ \/ cliPc = "closed"]
       ELSE cliTurns' = [cliTurns EXCEPT ![t].pc = "inserting",
                                         ![t].late = @ \/ cliPc = "closed"]
    /\ UNCHANGED <<inputs, mensajesAcumulados, debounceTimeout, timers, cliPc,
                   ctlVars, valVars, coerceVars, buildVars, historyVars>>

\* app.ts:264-280  insertOrder resolves: on status 201 currentOrderId is
\* assigned the id of the created row
TurnInsertedOf(t) ==
    /\ Alive
    /\ cliTurns[t].pc = "inserting"
    /\ cliTurns' = [cliTurns EXCEPT ![t].pc = "handling", ![t].calls = @ - 1]
    /\ \E status \in IF Len(orders) < MaxOrders THEN InsertStatuses
                      ELSE InsertStatuses \ {StatusCreated} :
         IF Created(status)
         THEN /\ orders' = Append(orders, [id_order |-> CreatedOrderId,
                                           row |-> safeArgs(PickupArgs)])
              /\ currentOrderId' = CreatedOrderId
         ELSE UNCHANGED <<currentOrderId, orders>>
    /\ UNCHANGED <<inputs, mensajesAcumulados, debounceTimeout, timers, cliPc,
                   lastSnapshot, pc, turn, rounds, pending, parts, messages,
                   detailsStore, trace, valVars, coerceVars, buildVars, historyVars>>

\* app.ts:213-343  a function call that is no add_order is dispatched, or a
\* function call throws
TurnDispatchOf(t) ==
    /\ Alive
    /\ cliTurns[t].pc = "handling"
    /\ cliTurns[t].calls > 0
    /\ \/ cliTurns' = [cliTurns EXCEPT ![t].calls = @ - 1,
                                        ![t].late = @ \/ cliPc = "closed"]
       \/ cliTurns' = [cliTurns EXCEPT ![t].pc = "apology", ![t].calls = 0,
                                        ![t].late = @ \/ cliPc = "closed"]
    /\ UNCHANGED <<inputs, mensajesAcumulados, debounceTimeout, timers, cliPc,
                   ctlVars, valVars, coerceVars, buildVars, historyVars>>

\* app.ts:344-355, 390  the parts are sent, the model answers with text and
\* handleFunctionCalls returns, or the send rejects
TurnEndOf(t) ==
    /\ Alive
    /\ cliTurns[t].pc = "handling"
    /\ cliTurns[t].calls = 0
    /\ \/ Finish(t)
       \/ /\ cliTurns' = [cliTurns EXCEPT ![t].pc = "apology"]
          /\ UNCHANGED <<debounceTimeout, cliPc>>
    /\ UNCHANGED <<inputs, mensajesAcumulados, timers, ctlVars, valVars, coerceVars, buildVars, historyVars>>

\* app.ts:391-397  the apology is sent, or its send rejects: then the promise
\* of procesarMensajes rejects, which main lets through to app.ts:428 and 432,
\* and which in the timer callback is an unhandled rejection (the process goes
\* on or is ended, as the runtime is set up)
TurnApologyOf(t) ==
    /\ Alive
    /\ cliTurns[t].pc = "apology"
    /\ \/ Finish(t)
       \/ /\ cliTurns' = [cliTurns EXCEPT ![t].pc = "done"]
          /\ IF cliTurns[t].origin = "exit"
             THEN cliPc' = "closed"
             ELSE cliPc' \in {cliPc, "dead"}
          /\ UNCHANGED debounceTimeout
    /\ UNCHANGED <<inputs, mensajesAcumulados, timers, ctlVars, valVars, coerceVars, buildVars, historyVars>>

\* app.ts:400  the CLI loop begins
InitCli ==
    /\ ControllerIdle
    /\ HistoryOff
    /\ BuildOff
    /\ ValidateOff
    /\ CoerceOff
    /\ inputs = << >>
    /\ mensajesAcumulados = << >>
    /\ debounceTimeout = 0
    /\ timers = {}
    /\ cliTurns = << >>
    /\ cliPc = "prompt"

TurnSend == \E t \in 1..Len(cliTurns) : TurnSendOf(t)
TurnDispatch == \E t \in 1..Len(cliTurns) : TurnDispatchOf(t)
TurnAddOrder == \E t \in 1..Len(cliTurns) : TurnAddOrderOf(t)
TurnInserted == \E t \in 1..Len(cliTurns) : TurnInsertedOf(t)
TurnEnd == \E t \in 1..Len(cliTurns) : TurnEndOf(t)
TurnApology == \E t \in 1..Len(cliTurns) : TurnApologyOf(t)

NextCli ==
    \/ InputLine
    \/ ExitLine
    \/ TimerFires
    \/ TurnSend
    \/ TurnDispatch
    \/ TurnAddOrder
    \/ TurnInserted
    \/ TurnEnd
    \/ TurnApology

SpecCli == InitCli /\ [][NextCli]_vars

(***************************************************************************)
(* buildSnapshot applied to drawn inputs: each of the four reads returns   *)
(* rows or null, and the product and menu rows are put together row by     *)
(* row.  The ids are the data store's; a link may name a product the       *)
(* products read did not return (p9).                                      *)
(***************************************************************************)
MaxProducts == 2     \* rows the products read returns
MaxMenus == 2        \* rows the menus read returns

\* two rows give p1 (the later one wins), one row has no category
ProductRowInputs ==
    { ProductRow("p1", "Burger", "main"),
      ProductRow("p2", "Cola", "drink"),
      ProductRow("p1", "Burger XL", "side"),
      ProductRow("p3", "Bread", "") }

\* rows that share an id or a name, rows whose links are stale, repeated or
\* none, and a row without id_menu
MenuRowInputs ==
    { MenuRow(Mid1, Name1, << <<"main", 1>> >>, <<"p1", "p2">>),
      MenuRow(Mid1, Name2, << >>, <<"p9">>),
      MenuRow(Mid2, Name1, << <<"main", 1>> >>, <<"p3", "p9", "p1">>),
      MenuRow(Mid2, Name2, << <<"drink", 2>> >>, <<"p2", "p2">>),
      MenuRow(Mid2, Name2, << >>, << >>),
      MenuRow(<< >>, Name1, << <<"main", 1>> >>, <<"p1">>) }

InitBuild ==
    /\ ControllerIdle
    /\ HistoryOff
    /\ ValidateOff
    /\ CoerceOff
    /\ CliOff
    /\ \E found, schedule, products, menus \in BOOLEAN :
         bDb = Database(found, schedule, products, << >>, menus, << >>)
    /\ bResult = [threw |-> "", snapshot |-> NoSnapshot, reads |-> << >>]
    /\ bPc = "input"

\* one more row of the products read
BAddProduct ==
    /\ bPc = "input"
    /\ Len(bDb.products) < MaxProducts
    /\ \E row \in ProductRowInputs : bDb' = [bDb EXCEPT !.products = Append(@, row)]
    /\ UNCHANGED <<bResult, bPc, ctlVars, valVars, coerceVars, cliVars, historyVars>>

\* one more row of the menus read
BAddMenu ==
    /\ bPc = "input"
    /\ Len(bDb.menus) < MaxMenus
    /\ \E row \in MenuRowInputs : bDb' = [bDb EXCEPT !.menus = Append(@, row)]
    /\ UNCHANGED <<bResult, bPc, ctlVars, valVars, coerceVars, cliVars, historyVars>>

\* the call buildSnapshot(id_establishment)
BBuild ==
    /\ bPc = "input"
    /\ bResult' = buildSnapshot(bDb)
    /\ bPc' = "done"
    /\ UNCHANGED <<bDb, ctlVars, valVars, coerceVars, cliVars, historyVars>>

NextBuild == BAddProduct \/ BAddMenu \/ BBuild

SpecBuild == InitBuild /\ [][NextBuild]_vars

(***************************************************************************)
(* The history load of main applied to drawn rows: the rows saveMessage    *)
(* left in the store are loaded, mapped and searched for a snapshot        *)
(* response (app.ts:156-157, 361-376).                                     *)
(***************************************************************************)
MaxRows == 3         \* rows of the chat in the store

\* rows as saveMessage writes them (role, parts): the user's text, the
\* model's text, the call and the response of a snapshot fetch, the response
\* of another tool; and a row of role function
StoredRowInputs ==
    { Message("user", "text", ""),
      Message("model", "text", ""),
      Message("model", "functionCall", "get_establishment_snapshot"),
      Message("user", "functionResponse", "get_establishment_snapshot"),
      Message("user", "functionResponse", "add_order"),
      Message("function", "functionResponse", "get_establishment_snapshot") }

InitHistory ==
    /\ ControllerIdle
    /\ ValidateOff
    /\ CoerceOff
    /\ CliOff
    /\ BuildOff
    /\ hRows = << >>
    /\ hHistory = << >>
    /\ hSent = FALSE
    /\ hPc = "input"

\* one more row saved by an earlier session
HAppend ==
    /\ hPc = "input"
    /\ Len(hRows) < MaxRows
    /\ \E row \in StoredRowInputs : hRows' = Append(hRows, row)
    /\ UNCHANGED <<hHistory, hSent, hPc, ctlVars, valVars, coerceVars, cliVars, buildVars>>

\* app.ts:156-157, 361-371  main loads the history and decides on the
\* initial message
HLoad ==
    /\ hPc = "input"
    /\ hHistory' = rowsToGenAiHistory(mapRows(hRows))
    /\ hSent' = ~hasRecentSnapshot(hHistory')
    /\ hPc' = "done"
    /\ UNCHANGED <<hRows, ctlVars, valVars, coerceVars, cliVars, buildVars>>

NextHistory == HAppend \/ HLoad

SpecHistory == InitHistory /\ [][NextHistory]_vars

(***************************************************************************)
(* Claims about validateMenuItems, checked under SpecValidate.             *)
(***************************************************************************)
\* The entry reaches the menu branch (app.ts:120) with a menu of the snapshot.
IsMenuEntry(snapshot, d) ==
    /\ d.id_product = ""
    /\ d.id_menu # << >>
    /\ d.id_menu \in DOMAIN snapshot.menus_index_by_id

MenuOf(snapshot, d) == snapshot.menus_index_by_id[d.id_menu]

Offending(snapshot, d, pid) ==
    \/ pid \notin DOMAIN snapshot.products_index
    \/ pid \notin Range(MenuOf(snapshot, d).allowed_product_ids)

\* how many of the selected products are of category cat
Selected(snapshot, d, cat) ==
    Cardinality({i \in 1..Len(d.selected_products) :
                    snapshot.products_index[d.selected_products[i]].category = cat})

Complete(snapshot, d) ==
    \A k \in 1..Len(MenuOf(snapshot, d).composition) :
        Selected(snapshot, d, MenuOf(snapshot, d).composition[k][1])
            = MenuOf(snapshot, d).composition[k][2]

InScopeC6(snapshot, d) ==
    /\ IsMenuEntry(snapshot, d)
    /\ \A pid \in Range(d.selected_products) : ~Offending(snapshot, d, pid)

\* C6: a list of menu entries whose selected products all exist and are
\* allowed is accepted if and only if every entry selects, for every category
\* of its menu's composition, exactly the required number of products; a
\* rejection names the menu, a category whose count differs and the count
\* expected for it, for the first entry that is not complete.
C6_ExactComposition ==
    (vPc = "done" /\ \A i \in 1..Len(vDetails) : InScopeC6(vSnapshot, vDetails[i]))
    => /\ vResult.ok <=> \A i \in 1..Len(vDetails) : Complete(vSnapshot, vDetails[i])
       /\ ~vResult.ok =>
            LET i == CHOOSE j \in 1..Len(vDetails) :
                        /\ ~Complete(vSnapshot, vDetails[j])
                        /\ \A h \in 1..(j - 1) : Complete(vSnapshot, vDetails[h])
                d == vDetails[i]
            IN  /\ vResult.kind = "Seleccion incompleta"
                /\ vResult.menu = MenuOf(vSnapshot, d).name
                /\ \E k \in 1..Len(MenuOf(vSnapshot, d).composition) :
                       /\ MenuOf(vSnapshot, d).composition[k] = <<vResult.cat, vResult.qty>>
                       /\ Selected(vSnapshot, d, vResult.cat) # vResult.qty

CompositionCategories(snapshot, d) ==
    {MenuOf(snapshot, d).composition[k][1] : k \in 1..Len(MenuOf(snapshot, d).composition)}

\* C6 witness: a validated list in scope whose first entry is accepted
\* although it selects a product of a category outside the composition, and
\* whose second entry is rejected for selecting too many of one category.
C6_Witness ==
    /\ vPc = "done"
    /\ Len(vDetails) = 2
    /\ \A i \in 1..2 : InScopeC6(vSnapshot, vDetails[i])
    /\ Complete(vSnapshot, vDetails[1])
    /\ \E pid \in Range(vDetails[1].selected_products) :
           vSnapshot.products_index[pid].category
               \notin CompositionCategories(vSnapshot, vDetails[1])
    /\ ~vResult.ok
    /\ Selected(vSnapshot, vDetails[2], vResult.cat) > vResult.qty

\* C7: a list holding a menu entry one of whose selected products is missing
\* from products_index or is not among the menu's allowed products is
\* rejected; when that entry is the first of the list the rejection is the one
\* of a selected product, whatever the composition counts are.
C7_DisallowedSelected ==
    vPc = "done" =>
        \A i \in 1..Len(vDetails) :
            ( /\ IsMenuEntry(vSnapshot, vDetails[i])
              /\ \E pid \in Range(vDetails[i].selected_products) :
                     Offending(vSnapshot, vDetails[i], pid) )
            => /\ ~vResult.ok
               /\ i = 1 => vResult.kind \in {"Producto seleccionado no valido",
                                             "Producto no permitido en menu"}

\* how many of the selected products that products_index knows are of cat
SelectedKnown(snapshot, d, cat) ==
    Cardinality({i \in 1..Len(d.selected_products) :
                    /\ d.selected_products[i] \in DOMAIN snapshot.products_index
                    /\ snapshot.products_index[d.selected_products[i]].category = cat})

\* C7 witness: a rejected one-entry list whose menu entry selects a product
\* that exists but is not allowed for the menu, with counts that satisfy the
\* composition.
C7_Witness ==
    /\ vPc = "done"
    /\ Len(vDetails) = 1
    /\ IsMenuEntry(vSnapshot, vDetails[1])
    /\ \E pid \in Range(vDetails[1].selected_products) :
           /\ pid \in DOMAIN vSnapshot.products_index
           /\ pid \notin Range(MenuOf(vSnapshot, vDetails[1]).allowed_product_ids)
    /\ \A k \in 1..Len(MenuOf(vSnapshot, vDetails[1]).composition) :
           SelectedKnown(vSnapshot, vDetails[1], MenuOf(vSnapshot, vDetails[1]).composition[k][1])
               = MenuOf(vSnapshot, vDetails[1]).composition[k][2]
    /\ vResult.kind = "Producto no permitido en menu"

\* C8, as the spec words it (a product id is looked at first, a menu id only
\* when the entry names no product): a list holding an entry that names a
\* product id that is no key of products_index, or that names no product and
\* a menu id that is no key of menus_index_by_id, is never accepted.  The
\* claim itself, which also covers entries naming both ids, is stronger.
C8_UnknownIdsRejected ==
    vPc = "done" =>
        \A i \in 1..Len(vDetails) :
            ( \/ /\ vDetails[i].id_product # ""
                 /\ vDetails[i].id_product \notin DOMAIN vSnapshot.products_index
              \/ /\ vDetails[i].id_product = ""
                 /\ vDetails[i].id_menu # << >>
                 /\ vDetails[i].id_menu \notin DOMAIN vSnapshot.menus_index_by_id )
            => ~vResult.ok

\* what validateMenuItems answers for entry i alone
Alone(i) == validateMenuItems(vSnapshot, <<vDetails[i]>>)

\* C9: fail-fast.  A list is accepted if and only if each of its entries is
\* accepted alone; a rejected list gets the answer of its first entry that is
\* rejected alone; and when that entry is a menu entry with an offending
\* selected product, the answer names the first offending selected product
\* and is no composition error.
C9_FailFast ==
    vPc = "done" =>
        /\ vResult.ok <=> \A i \in 1..Len(vDetails) : Alone(i).ok
        /\ ~vResult.ok =>
             LET i == CHOOSE j \in 1..Len(vDetails) :
                         ~Alone(j).ok /\ \A h \in 1..(j - 1) : Alone(h).ok
                 d == vDetails[i]
                 sel == d.selected_products
             IN  /\ vResult = Alone(i)
                 /\ ( /\ IsMenuEntry(vSnapshot, d)
                      /\ \E k \in 1..Len(sel) : Offending(vSnapshot, d, sel[k]) )
                    => LET k == CHOOSE n \in 1..Len(sel) :
                                   /\ Offending(vSnapshot, d, sel[n])
                                   /\ \A h \in 1..(n - 1) : ~Offending(vSnapshot, d, sel[h])
                       IN  /\ vResult.product = sel[k]
                           /\ vResult.kind # "Seleccion incompleta"

\* C9 witness: a validated list of two entries that are both rejected alone,
\* for different reasons, the first one a menu entry with two offending
\* selected products and unsatisfied composition counts.
C9_Witness ==
    /\ vPc = "done"
    /\ Len(vDetails) = 2
    /\ ~Alone(1).ok
    /\ ~Alone(2).ok
    /\ Alone(1) # Alone(2)
    /\ IsMenuEntry(vSnapshot, vDetails[1])
    /\ Cardinality({k \in 1..Len(vDetails[1].selected_products) :
                       Offending(vSnapshot, vDetails[1], vDetails[1].selected_products[k])}) = 2
    /\ vResult = Alone(1)

(***************************************************************************)
(* Claims about the tool-call handler, checked under Spec.                 *)
(***************************************************************************)
OrderIds == {orders[i].id_order : i \in 1..Len(orders)}

\* C1: insertOrder succeeds at most once in a conversation, and an add_order
\* call dispatched while an order is open calls no insert, leaves the open
\* order as it is and answers with the id of the open order.
C1_OneOrderPerConversation ==
    /\ Len(orders) <= 1
    /\ (trace.op = "add_order" /\ trace.orderBefore # 0)
       => /\ trace.inserted = << >>
          /\ trace.status = 0
          /\ currentOrderId = trace.orderBefore
          /\ trace.response = Response("add_order", "id_order", "", trace.orderBefore, ResultOk)

\* C1 witness: in a user turn, add_order was dispatched while the order
\* created in an earlier turn was open.
C1_Witness ==
    /\ trace.op = "add_order"
    /\ trace.orderBefore # 0
    /\ turn = 1
    /\ Len(orders) = 1
    /\ parts # << >>
    /\ parts[Len(parts)].id_order = orders[1].id_order

\* C2: add_order changes currentOrderId only when insertOrder returned status
\* 201, and then to the id of the created row; when no order was open and the
\* call was rejected for a missing address (no insert called) or the insert
\* returned another status, currentOrderId stays null, no exception is thrown
\* and the answer is {success: false, error}.  currentOrderId is always null
\* or the id of a row of the orders table.
C2_OrderIdOnlyAfterCreated ==
    /\ currentOrderId = 0 \/ currentOrderId \in OrderIds
    /\ trace.op = "add_order"
       => /\ currentOrderId # trace.orderBefore
             => /\ trace.status = StatusCreated
                /\ currentOrderId = orders[Len(orders)].id_order
          /\ (trace.orderBefore = 0 /\ trace.status # StatusCreated)
             => /\ currentOrderId = 0
                /\ ~trace.threw
                /\ trace.response = Response("add_order", "success,error", "false", 0, ResultOk)
                /\ trace.inserted = << >> <=> trace.status = 0

\* C2 witness: with no order open, insertOrder was called for a pickup order
\* and returned a status other than 201.
C2_Witness ==
    /\ trace.op = "add_order"
    /\ trace.orderBefore = 0
    /\ trace.inserted # << >>
    /\ trace.inserted[1].is_pickup
    /\ trace.status # StatusCreated
    /\ currentOrderId = 0

\* C3: add_details_order dispatched while no order is open answers with a
\* failure, calls neither buildSnapshot nor validateMenuItems nor
\* insertDetailsOrder, and leaves currentOrderId, lastSnapshot and the stored
\* details as they were.
C3_NoOpenOrder ==
    (trace.op = "add_details_order" /\ trace.orderBefore = 0)
    => /\ trace.response = Response("add_details_order", "success,message", "false", 0, ResultOk)
       /\ ~trace.threw
       /\ ~trace.built
       /\ trace.validated = << >>
       /\ trace.sent = << >>
       /\ trace.status = 0
       /\ currentOrderId = 0
       /\ lastSnapshot = trace.snapshotBefore
       /\ detailsStore = trace.detailsBefore

\* C3 witness: add_details_order with a non-empty list was dispatched with no
\* order open and no snapshot cached.
C3_Witness ==
    /\ trace.op = "add_details_order"
    /\ trace.orderBefore = 0
    /\ trace.raw # << >>
    /\ trace.raw[1] # << >>
    /\ IsNull(lastSnapshot)

\* C4: every entry of a list given to insertDetailsOrder carries the id of the
\* order open at dispatch, and every stored detail row belongs to an order of
\* the conversation.
C4_DetailsOnOpenOrder ==
    /\ \A row \in detailsStore : row.id_order \in OrderIds
    /\ trace.sent # << >>
       => /\ trace.orderBefore # 0
          /\ \A i \in 1..Len(trace.sent[1]) : trace.sent[1][i].id_order = trace.orderBefore

\* C4 witness: a list was stored whose first entry the model had sent under
\* the id of another order.
C4_Witness ==
    /\ trace.sent # << >>
    /\ trace.status = StatusCreated
    /\ Len(trace.sent[1]) > 0
    /\ trace.raw[1][1].id_order \notin {0, trace.orderBefore}
    /\ trace.sent[1][1] \in detailsStore

\* C5: a list is given to insertDetailsOrder only if it is the list that
\* validateMenuItems accepted against the cached snapshot, after every menu
\* reference that is no id but resolves by name was replaced by a menu id;
\* when validateMenuItems rejects the list, its error is the answer, no insert
\* is called, the stored details are unchanged and the order stays open.
C5_ValidatedBeforeInsert ==
    trace.op = "add_details_order"
    => /\ trace.sent # << >>
          => /\ trace.sent = trace.validated
             /\ validateMenuItems(lastSnapshot, trace.sent[1]).ok
             /\ \A i \in 1..Len(trace.sent[1]) :
                  LET ref == trace.raw[1][i].id_menu
                      name == toLowerCase(ref)
                  IN  (ref # << >> /\ startsWith(name, MenuPrefix)
                       /\ slice(name, 5) \in DOMAIN lastSnapshot.menus_index_by_name)
                      => trace.sent[1][i].id_menu \in DOMAIN lastSnapshot.menus_index_by_id
       /\ ( /\ trace.validated # << >>
            /\ validateMenuItems(lastSnapshot, trace.validated[1]).kind
                   \notin {"ok", "TypeError"} )
          => /\ trace.response = Response("add_details_order", "success,message", "false", 0,
                                          validateMenuItems(lastSnapshot, trace.validated[1]))
             /\ trace.sent = << >>
             /\ trace.status = 0
             /\ detailsStore = trace.detailsBefore
             /\ currentOrderId = trace.orderBefore
             /\ currentOrderId # 0

\* C5 witness: a two-entry list whose first entry is valid and whose second
\* entry is not was rejected with nothing stored.
C5_Witness ==
    /\ trace.op = "add_details_order"
    /\ trace.validated # << >>
    /\ Len(trace.validated[1]) = 2
    /\ validateMenuItems(lastSnapshot, <<trace.validated[1][1]>>).ok
    /\ ~validateMenuItems(lastSnapshot, <<trace.validated[1][2]>>).ok
    /\ trace.sent = << >>
    /\ trace.response.validation.kind = "Seleccion incompleta"
    /\ detailsStore = {}

\* how many of the selected products the menu lists under category cat
ListedCount(menu, selected, cat) ==
    Cardinality({k \in 1..Len(selected) :
        /\ cat \in DOMAIN menu.options_by_category
        /\ \E j \in 1..Len(menu.options_by_category[cat]) :
              menu.options_by_category[cat][j].id = selected[k]})

\* C37: the catalog view and the validator agree on categories.  For a list
\* of one menu entry whose selected products are all listed in the menu's
\* options_by_category, the validation passes exactly when, for every
\* category of the composition, the number of selected products listed under
\* that category is the required quantity.
C37_OptionsCountTowardCategory ==
    (/\ vPc = "done"
     /\ Len(vDetails) = 1
     /\ vDetails[1].id_product = ""
     /\ vDetails[1].id_menu \in DOMAIN vSnapshot.menus_index_by_id)
    => LET menu == vSnapshot.menus_index_by_id[vDetails[1].id_menu]
           selected == vDetails[1].selected_products
       IN  (\A k \in 1..Len(selected) :
                \E cat \in DOMAIN menu.options_by_category :
                    ListedCount(menu, <<selected[k]>>, cat) = 1)
           => (vResult.ok <=>
                 \A k \in 1..Len(menu.composition) :
                     ListedCount(menu, selected, menu.composition[k][1])
                         = menu.composition[k][2])

(***************************************************************************)
(* Claims about coerceMenuId, checked under SpecCoerce.                    *)
(***************************************************************************)
\* the name coerceMenuId looks up for an input that is no menu id
AliasOf(input) ==
    LET lower == toLowerCase(trim(input))
    IN  IF startsWith(lower, MenuPrefix) THEN slice(lower, 5) ELSE lower

\* C11: coerceMenuId returns its input when the input is a key of
\* menus_index_by_id; otherwise it returns the id that menus_index_by_name
\* stores for the input (outer blanks dropped, lowercased, a leading "menu_"
\* dropped), and null when menus_index_by_name stores none.  The result is
\* always null or the id of a menu of the snapshot.
C11_CoerceResolvesOrNull ==
    cPc = "done" =>
        LET input == InputText(cPieces)
            alias == AliasOf(input)
        IN  /\ cResult = IF input \in DOMAIN cSnapshot.menus_index_by_id THEN input
                         ELSE IF alias \in DOMAIN cSnapshot.menus_index_by_name
                         THEN cSnapshot.menus_index_by_name[alias]
                         ELSE << >>
            /\ cResult = << >> \/ cResult \in DOMAIN cSnapshot.menus_index_by_id

\* the lowercased name of menu i is the name of no other menu of the snapshot
UniqueName(snapshot, i) ==
    \A j \in 1..Len(snapshot.menus) :
        toLowerCase(snapshot.menus[j].name) = toLowerCase(snapshot.menus[i].name) => j = i

\* C36: name round trip.  For a menu whose lowercased name is unique in the
\* snapshot, coerceMenuId returns the menu's id for the menu's name in any
\* letter case, with or without the prefix "menu_" in any letter case.
C36_NameRoundTrip ==
    cPc = "done"
    => LET input == toLowerCase(InputText(cPieces))
       IN  \A i \in 1..Len(cSnapshot.menus) :
             LET name == toLowerCase(cSnapshot.menus[i].name)
             IN  (UniqueName(cSnapshot, i) /\ (input = name \/ input = MenuPrefix \o name))
                 => cResult = cSnapshot.menus[i].id

(***************************************************************************)
(* Claims about the CLI loop with debounce, checked under SpecCli.         *)
(***************************************************************************)
\* the lines typed from the i-th to the j-th, joined by single blanks
RECURSIVE ArrivalText(_, _)
ArrivalText(i, j) ==
    IF i > j THEN << >>
    ELSE IF i = j THEN inputs[i]
    ELSE inputs[i] \o <<" ">> \o ArrivalText(i + 1, j)

\* the indices i, i+1, ..., j in order
Run(i, j) == [k \in 1..(j - i + 1) |-> i + k - 1]

\* how many lines the turns before turn t took
TakenBefore(t) == IF t = 1 THEN 0 ELSE cliTurns[t - 1].batch[Len(cliTurns[t - 1].batch)]

\* how many lines the turns took so far
Taken == TakenBefore(Len(cliTurns) + 1)

\* C12: each timer firing or exit flush that finds lines buffered starts one
\* turn with one message, which is all the lines typed since the turn before
\* took its lines, in the order they were typed, joined by single blanks; the
\* lines typed since the last turn began are the buffer, so no line is in two
\* messages or skipped by a turn.
C12_OneMessagePerWindow ==
    /\ \A t \in 1..Len(cliTurns) :
         LET first == TakenBefore(t) + 1
             last == first + Len(cliTurns[t].batch) - 1
         IN  /\ cliTurns[t].batch # << >>
             /\ cliTurns[t].batch = Run(first, last)
             /\ cliTurns[t].message = ArrivalText(first, last)
    /\ mensajesAcumulados = Run(Taken + 1, Len(inputs))

\* C12 witness: three lines typed before the timer fired reached the model as
\* one message of a turn the timer began.
C12_Witness ==
    \E t \in 1..Len(cliTurns) :
        /\ cliTurns[t].origin = "timer"
        /\ cliTurns[t].batch = <<1, 2, 3>>
        /\ cliTurns[t].delivered
        /\ cliTurns[t].message = inputs[1] \o <<" ">> \o inputs[2] \o <<" ">> \o inputs[3]
        /\ inputs[1] # inputs[2]

\* the turns whose message holds line i and reached the model
DeliveredWith(i) ==
    {t \in 1..Len(cliTurns) : cliTurns[t].delivered /\ i \in Range(cliTurns[t].batch)}

\* C13: no line is dropped or sent twice.  At every moment each line typed is
\* still buffered, or in the message of a turn whose send is under way, or in
\* exactly one message that reached the model.
C13_NoInputDropped ==
    \A i \in 1..Len(inputs) :
        /\ Cardinality(DeliveredWith(i)) <= 1
        /\ \/ i \in Range(mensajesAcumulados)
           \/ \E t \in 1..Len(cliTurns) :
                  cliTurns[t].pc = "sending" /\ i \in Range(cliTurns[t].batch)
           \/ DeliveredWith(i) # {}

\* C14: at most one timer is pending, debounceTimeout is that timer whenever
\* one is pending, and every turn a timer began was begun by the timer of the
\* last line typed (no line was typed during the delay before it fired).
C14_TimerResetByEveryInput ==
    /\ Cardinality(timers) <= 1
    /\ timers # {} => debounceTimeout \in timers
    /\ \A t \in 1..Len(cliTurns) : cliTurns[t].origin = "timer" => cliTurns[t].quiet

\* C15: turns never overlap.  At most one turn is in flight, and no turn was
\* begun while another one was in flight.
C15_TurnsNeverOverlap ==
    /\ Cardinality({t \in 1..Len(cliTurns) : InFlight(t)}) <= 1
    /\ \A t \in 1..Len(cliTurns) : ~cliTurns[t].overlap

\* C16: when main has returned after the exit command, no line is left in
\* the buffer, and the turn the exit command began has completed.
C16_ExitFlushesBuffer ==
    cliPc = "closed" =>
        /\ mensajesAcumulados = << >>
        /\ \A t \in 1..Len(cliTurns) : cliTurns[t].origin = "exit" => ~InFlight(t)

\* C17: closed is terminal.  No turn is begun and no function call is
\* dispatched after main has returned from the exit command.
C17_ClosedIsTerminal ==
    \A t \in 1..Len(cliTurns) : ~cliTurns[t].late

(***************************************************************************)
(* Claims about the rounds of handleFunctionCalls, checked under Spec.     *)
(***************************************************************************)
\* the ids of the orders that add_order calls earlier in the round answered
\* with (the order just created, or the one already open)
AnsweredBefore ==
    {parts[k].id_order : k \in {h \in 1..(Len(parts) - 1) :
                                  parts[h].name = "add_order" /\ parts[h].id_order # 0}}

C20_NoErrorLeavesDispatch ==
    /\ ~trace.threw
    /\ trace.buildError # "" => trace.response # NoResponse

\* C21: a turn in which an exception is thrown never ends the conversation:
\* main is not rejected, so the controller goes on to accept input and to
\* process later turns.
C21_FailedTurnNeverAborts ==
    pc # "crashed"

\* C22: once a build has failed because the establishment is absent, no later
\* tool call creates an order or inserts details: none of the calls that
\* follow in the same round gives a row to insertOrder or to
\* insertDetailsOrder.
C22_MissingEstablishmentIsFatal ==
    (trace.establishmentMissing /\ trace.op \in {"add_order", "add_details_order"})
    => /\ trace.inserted = << >>
       /\ trace.sent = << >>
       /\ trace.status # StatusCreated

\* C28: a cached snapshot stays cached: no call leaves lastSnapshot null
\* that found it set, and only a build that succeeded replaces it.  An
\* add_details_order call that finds a snapshot cached calls no build and
\* validates against that snapshot; it calls the build only when it finds
\* none cached.
C28_SnapshotStaysCached ==
    /\ ~IsNull(trace.snapshotBefore) => ~IsNull(lastSnapshot)
    /\ lastSnapshot # trace.snapshotBefore
       => trace.built /\ trace.buildError = "" /\ ~IsNull(lastSnapshot)
    /\ trace.op = "add_details_order"
       => /\ trace.built => IsNull(trace.snapshotBefore)
          /\ ~IsNull(trace.snapshotBefore)
             => /\ ~trace.built
                /\ lastSnapshot = trace.snapshotBefore
                /\ (trace.validated # << >> /\ ~trace.threw)
                   => trace.response.validation =
                         validateMenuItems(trace.snapshotBefore, trace.validated[1])

\* C28 witness: with the snapshot of the later catalog cached, an
\* add_details_order call validated a list that names a menu and called no
\* build.
C28_Witness ==
    /\ trace.op = "add_details_order"
    /\ trace.snapshotBefore = buildSnapshot(DbLater).snapshot
    /\ lastSnapshot = trace.snapshotBefore
    /\ ~trace.built
    /\ trace.validated # << >>
    /\ Len(trace.validated[1]) = 2
    /\ trace.validated[1][2].id_menu = Mid1

\* C29: every row given to insertOrder has an address exactly when it is no
\* pickup order, and so has every row of the orders table.  A request that
\* comes with an address and is_pickup true (or without is_pickup) is
\* inserted as a delivery order to that address; a delivery request without
\* address is answered {success: false, error} and calls no insert.
C29_AddressIffDelivery ==
    /\ \A k \in 1..Len(orders) : orders[k].row.is_pickup <=> orders[k].row.address = ""
    /\ trace.op = "add_order"
       => /\ \A k \in 1..Len(trace.inserted) :
                trace.inserted[k].is_pickup <=> trace.inserted[k].address = ""
          /\ trace.args # << >>
             => LET raw == trace.args[1]
                IN  /\ (raw.address # "" /\ raw.is_pickup # "false")
                       => /\ Len(trace.inserted) = 1
                          /\ ~trace.inserted[1].is_pickup
                          /\ trace.inserted[1].address = raw.address
                    /\ (raw.address = "" /\ raw.is_pickup = "false")
                       => /\ trace.inserted = << >>
                          /\ trace.status = 0
                          /\ trace.response =
                                Response("add_order", "success,error", "false", 0, ResultOk)

\* C29 witness: the model asked for a pickup order and gave an address, and
\* the row was inserted as a delivery order.
C29_Witness ==
    /\ trace.op = "add_order"
    /\ trace.args # << >>
    /\ trace.args[1].is_pickup = "true"
    /\ trace.args[1].address # ""
    /\ trace.status = StatusCreated
    /\ Len(orders) = 1
    /\ ~orders[1].row.is_pickup
    /\ orders[1].row.address = trace.args[1].address

\* C30: every entry given to insertDetailsOrder, and so every row of the
\* details table, names a product or a menu and not both.
C30_OneReferencePerDetail ==
    /\ \A k \in 1..Len(trace.sent) :
          \A j \in 1..Len(trace.sent[k]) :
              (trace.sent[k][j].id_product # "") # (trace.sent[k][j].id_menu # << >>)
    /\ \A row \in detailsStore : (row.id_product # "") # (row.id_menu # << >>)

\* C31: while no snapshot has been fetched (lastSnapshot is null) no order is
\* opened: an add_order call that finds lastSnapshot null gives no row to
\* insertOrder and leaves currentOrderId alone, and currentOrderId is set
\* only with a snapshot cached.
C31_OrderOnlyAfterSnapshot ==
    /\ currentOrderId # 0 => ~IsNull(lastSnapshot)
    /\ (trace.op = "add_order" /\ IsNull(trace.snapshotBefore))
       => /\ trace.inserted = << >>
          /\ currentOrderId = trace.orderBefore

\* C32: when turns overlap, two add_order calls never both pass the
\* open-order check: the calls that passed it and await their insert, and
\* the orders inserted, are at most one in all.
C32_OneOrderWhenTurnsOverlap ==
    Len(orders) + Cardinality({t \in 1..Len(cliTurns) : cliTurns[t].pc = "inserting"}) <= 1

\* C33: currentOrderId is write-once: once it holds the id of an order, no
\* step of the process (a tool call, a failed turn, a line typed, a timer)
\* changes it or sets it back to null.
C33_OrderIdWriteOnce ==
    [][currentOrderId # 0 => currentOrderId' = currentOrderId]_vars

\* C34: every row given to insertOrder, and every row of the orders table,
\* carries the chat id and the establishment id of the session, whatever ids
\* the model put in the arguments.
C34_OrdersCarrySessionIds ==
    /\ \A k \in 1..Len(orders) :
          /\ orders[k].row.id_chat = IdChatFromClient
          /\ orders[k].row.id_establishment = IdEstablishmentFromClient
    /\ \A k \in 1..Len(trace.inserted) :
          /\ trace.inserted[k].id_chat = IdChatFromClient
          /\ trace.inserted[k].id_establishment = IdEstablishmentFromClient

\* C34 witness: the model named another chat and another establishment in
\* add_order, and the order was created.
C34_Witness ==
    /\ trace.op = "add_order"
    /\ trace.args # << >>
    /\ trace.args[1].id_chat # IdChatFromClient
    /\ trace.args[1].id_establishment # IdEstablishmentFromClient
    /\ trace.status = StatusCreated
    /\ Len(trace.inserted) = 1
    /\ Len(orders) = 1

\* C35: function calls and responses are paired.  Every dispatched call is
\* answered with a functionResponse that names its tool; while a round is
\* dispatched its parts are the responses saved, in order; and every
\* functionCall row saved is followed by a functionResponse row for the same
\* tool.
C35_CallsAndResponsesPaired ==
    /\ trace.op # "none" => trace.response.name = trace.op
    /\ pc = "dispatch"
       => /\ Len(messages) = 2 * Len(parts)
          /\ \A k \in 1..Len(parts) : messages[2 * k].name = parts[k].name
    /\ \A k \in 1..Len(messages) :
          messages[k].part = "functionCall"
          => /\ k < Len(messages)
             /\ messages[k + 1].part = "functionResponse"
             /\ messages[k + 1].name = messages[k].name

(***************************************************************************)
(* Claims about buildSnapshot, checked under SpecBuild.                    *)
(***************************************************************************)
AllFound ==
    bDb.establishmentFound /\ bDb.scheduleFound /\ bDb.productsFound /\ bDb.menusFound

Returned == bPc = "done" /\ bResult.threw = ""

\* C23: buildSnapshot returns no snapshot when the establishment read
\* returned nothing, and none when the schedule, the products or the menus
\* read did; when the establishment is absent it issues none of the three
\* other reads; it returns a snapshot only when all four reads returned rows.
C23_BuildNeedsAllReads ==
    bPc = "done"
    => /\ (bResult.threw # "") = IsNull(bResult.snapshot)
       /\ ~bDb.establishmentFound
          => bResult.threw # "" /\ bResult.reads = <<"establishment">>
       /\ (~bDb.scheduleFound \/ ~bDb.productsFound \/ ~bDb.menusFound)
          => bResult.threw # ""
       /\ bResult.threw = "" => AllFound

\* C23 witness: the establishment was there and only the schedule read
\* returned nothing, with product and menu rows that would have built.
C23_Witness ==
    /\ bPc = "done"
    /\ bDb.establishmentFound /\ ~bDb.scheduleFound
    /\ bDb.productsFound /\ bDb.menusFound
    /\ bDb.products # << >>
    /\ bDb.menus # << >>
    /\ ~missingMenuId(bDb.menus)
    /\ Len(bResult.reads) = 4

\* C24: buildSnapshot throws and returns nothing when a menu row has no
\* id_menu; every menu of a returned snapshot has a non-empty id, and
\* menus_index_by_id maps the id of each menu, and nothing else, to a menu of
\* the snapshot that carries that id.
C24_MenusHaveIds ==
    bPc = "done"
    => /\ (AllFound /\ \E i \in 1..Len(bDb.menus) : bDb.menus[i].id_menu = << >>)
          => bResult.threw = "Menu sin id_menu en BD" /\ IsNull(bResult.snapshot)
       /\ bResult.threw = ""
          => LET snapshot == bResult.snapshot
                 by_id == snapshot.menus_index_by_id
             IN  /\ \A i \in 1..Len(snapshot.menus) :
                        /\ snapshot.menus[i].id # << >>
                        /\ snapshot.menus[i].id \in DOMAIN by_id
                     /\ \A id \in DOMAIN by_id :
                        /\ by_id[id].id = id
                        /\ \E k \in 1..Len(snapshot.menus) : snapshot.menus[k] = by_id[id]

\* C24 witness: all four reads returned rows, and the second of two menu
\* rows has no id_menu.
C24_Witness ==
    /\ bPc = "done"
    /\ AllFound
    /\ bDb.products # << >>
    /\ Len(bDb.menus) = 2
    /\ bDb.menus[1].id_menu # << >>
    /\ bDb.menus[2].id_menu = << >>
    /\ bResult.threw # ""

\* pid is listed in the options of menu m
Listed(m, pid) ==
    \E cat \in DOMAIN m.options_by_category :
        \E j \in 1..Len(m.options_by_category[cat]) :
            m.options_by_category[cat][j].id = pid

\* C25: a link to a product that is not in products_index does not make the
\* build fail: when the four reads returned rows and every menu row has an
\* id the snapshot is returned, every menu keeps all its links in
\* allowed_product_ids, and a linked id is listed in options_by_category
\* exactly when it is in products_index.
C25_StaleLinksTolerated ==
    (/\ bPc = "done"
     /\ AllFound
     /\ \A i \in 1..Len(bDb.menus) : bDb.menus[i].id_menu # << >>)
    => /\ bResult.threw = ""
       /\ Len(bResult.snapshot.menus) = Len(bDb.menus)
       /\ \A i \in 1..Len(bDb.menus) :
             LET m == bResult.snapshot.menus[i]
                 links == bDb.menus[i].menu_product
             IN  /\ m.allowed_product_ids = links
                 /\ \A k \in 1..Len(links) :
                       Listed(m, links[k]) <=> links[k] \in DOMAIN bResult.snapshot.products_index

\* C25 witness: a snapshot was returned with a menu whose links name a
\* product of the index and a product that is not in it.
C25_Witness ==
    /\ Returned
    /\ \E i \in 1..Len(bDb.menus) :
         /\ "p9" \in Range(bDb.menus[i].menu_product)
         /\ "p9" \notin DOMAIN bResult.snapshot.products_index
         /\ "p3" \in Range(bDb.menus[i].menu_product)
         /\ "p3" \in DOMAIN bResult.snapshot.products_index
         /\ Listed(bResult.snapshot.menus[i], "p3")

\* C26: in a returned snapshot every id of every menu's allowed_product_ids
\* is a key of products_index.
C26_AllowedIdsResolve ==
    Returned
    => \A i \in 1..Len(bResult.snapshot.menus) :
          \A pid \in Range(bResult.snapshot.menus[i].allowed_product_ids) :
              pid \in DOMAIN bResult.snapshot.products_index

\* C27: in a returned snapshot every product listed in a menu's
\* options_by_category is one of the menu's allowed_product_ids and a key of
\* products_index, listed with the product's name under the product's
\* category.
C27_OptionsAreAllowedProducts ==
    Returned
    => \A i \in 1..Len(bResult.snapshot.menus) :
          LET m == bResult.snapshot.menus[i]
              index == bResult.snapshot.products_index
          IN  \A cat \in DOMAIN m.options_by_category :
                \A j \in 1..Len(m.options_by_category[cat]) :
                    LET option == m.options_by_category[cat][j]
                    IN  /\ option.id \in Range(m.allowed_product_ids)
                        /\ option.id \in DOMAIN index
                        /\ option.name = index[option.id].name
                        /\ cat = OptionCategory(index, option.id)

\* C27 witness: a snapshot was returned in which a menu with three links
\* lists a product that has no category under "other", while a product of
\* the index is no link of that menu.
C27_Witness ==
    /\ Returned
    /\ \E i \in 1..Len(bResult.snapshot.menus) :
         LET m == bResult.snapshot.menus[i]
         IN  /\ Len(m.allowed_product_ids) = 3
             /\ Listed(m, "p3")
             /\ "other" \in DOMAIN m.options_by_category
             /\ "p2" \in DOMAIN bResult.snapshot.products_index
             /\ "p2" \notin Range(m.allowed_product_ids)

(***************************************************************************)
(* Claims about the history load, checked under SpecHistory.               *)
(***************************************************************************)
\* C38: the initial message is sent exactly when the stored rows of the
\* chat hold no functionResponse of get_establishment_snapshot.
C38_InitialMessageIffNoSnapshot ==
    hPc = "done"
    => (hSent <=>
          ~\E k \in 1..Len(hRows) :
              /\ hRows[k].part = "functionResponse"
              /\ hRows[k].name = "get_establishment_snapshot")

(***************************************************************************)
(* Claims about the loop of handleFunctionCalls, checked under Spec.       *)
(***************************************************************************)
\* C39: handleFunctionCalls drains the function calls until the model
\* answers without any.  A round is opened only by a response that holds
\* calls; a round all of whose calls were dispatched without producing a part
\* ends the loop; and the handler returns (the final text is reported) only
\* from a round with no call left to dispatch, leaving no call pending.
C39_DrainsUntilNoCalls ==
    [][ /\ (pc' = "dispatch" /\ pc # "dispatch") => pending' > 0
        /\ (pc = "dispatch" /\ pending = 0 /\ parts = << >>)
           => (pc' = "idle" /\ pending' = 0)
        /\ (pc' = "idle" /\ ~trace'.threw)
           => /\ pending' = 0
              /\ pc = "dispatch" => pending = 0 ]_vars

\* C39 witness: every call of the round was dispatched and none produced a
\* part (the last one had an unrecognised name): the loop is about to end
\* without a message to the model.
C39_Witness ==
    /\ pc = "dispatch"
    /\ pending = 0
    /\ parts = << >>
    /\ trace.op = "unknown"
    /\ ~trace.threw

====
